---- MODULE Spec2Model ----
(***************************************************************************)
(* Model of github_resolver/resolve_issues.py: the orchestrator            *)
(* (resolve_issues), the per-issue pipeline (process_issue,                *)
(* initialize_runtime, complete_runtime, guess_success) and the ledger     *)
(* append (update_progress).  One action per event-loop step: a step runs  *)
(* from one await point of a coroutine to its next one.                    *)
(***************************************************************************)
EXTENDS Integers, Sequences, FiniteSets, TLC

\* ---------------------------------------------------------------- bounds
NumIssues == 2          \* issues returned by download_issues_from_github
MaxWorkers == 2         \* largest --num-workers tried
MaxRuns == 2            \* invocations of resolve_issues on one output_dir
MaxContentLen == 2      \* characters of a diff output

\* ------------------------------------------------------- program constants
MaxDiffRetries == 5     \* while n_retries < 5
BaseTimeout == 600      \* action.timeout = 600 + 100 * n_retries
TimeoutStep == 100

VARIABLES
    issues,           \* list[GithubIssue], by issue.number
    output_file,      \* lines of output_dir/output.jsonl on disk
    output_buf,       \* lines written to output_fp and not yet flushed
    repo_dir,         \* output_dir/repo exists
    workspace_dirs,   \* issue numbers whose output_dir/workspace/issue_N exists
    run_pc,           \* "idle" | "running" | "done" | "raised" | "crashed" |
                      \* "interrupted" | "cancelled"
    runs,             \* invocations of resolve_issues so far
    start_len,        \* Len(output_file) when output_fp was opened
    finished_numbers, \* set loaded from output.jsonl
    new_issues,       \* the filtered list built at lines 468-473
    base_commit,
    num_workers,
    sem,              \* asyncio.Semaphore(num_workers)._value
    gather_exc,       \* an awaitable of gather() has raised
    pbar,             \* tqdm: n, total, desc
    pc,               \* per issue: position of its task
    n_retries,        \* per issue: complete_runtime's n_retries
    git_patch,        \* per issue: complete_runtime's git_patch
    last_error,       \* per issue: state.last_error
    exc,              \* per issue: type of the exception that ended its task
    diff_obs,         \* per issue: observations the diff attempts received
    timeouts,         \* per issue: action.timeout of each diff attempt
    sleeps,           \* per issue: asyncio.sleep(10) calls in the diff loop
    cmds,             \* per issue: sandbox commands issued, in order
    oracle_calls,     \* per issue: completion() calls
    oracle_text,      \* per issue: the text completion() returned
    verdict,          \* per issue: what guess_success returned
    token,            \* a GitHub token was given to the run
    output_dir,       \* output_dir exists
    setup_exc,        \* type of the exception that ended the setup, or ""
    sandboxes,        \* issue numbers whose runtime was created and still runs
    head,             \* per issue: HEAD of the workspace's repository
    setup_obs,        \* per issue: outcomes of the setup commands, in order
    starts            \* per issue: calls of process_issue in this run

vars == << issues, output_file, output_buf, repo_dir, workspace_dirs, run_pc,
           runs, start_len, finished_numbers, new_issues, base_commit,
           num_workers, sem, gather_exc, pbar, pc, n_retries, git_patch,
           last_error, exc, diff_obs, timeouts, sleeps, cmds, oracle_calls, oracle_text,
           verdict, token, output_dir, setup_exc, sandboxes, head, setup_obs,
           starts >>

runVars == << run_pc, runs, start_len, finished_numbers, new_issues,
              base_commit, num_workers, pbar >>
diskVars == << output_file, output_buf, repo_dir, workspace_dirs >>
taskVars == << pc, n_retries, git_patch, last_error, exc, diff_obs, timeouts,
               sleeps, cmds, oracle_calls, oracle_text, verdict, sandboxes, head,
               setup_obs, starts >>
\* what the start of a run fixes
callVars == << token, output_dir, setup_exc >>

IssueNumbers == 1 .. NumIssues

\* ------------------------------------------------------------ Optional[T]
None == [some |-> FALSE, val |-> <<>>]
Some(v) == [some |-> TRUE, val |-> v]

\* ------------------------------------------------------------------ text
\* A text is a sequence of characters; " " stands for any whitespace.
IsSpace(c) == c = " "

RECURSIVE LStrip(_)
LStrip(t) == IF t # <<>> /\ IsSpace(Head(t)) THEN LStrip(Tail(t)) ELSE t

RECURSIVE RStrip(_)
RStrip(t) ==
    IF t # <<>> /\ IsSpace(t[Len(t)]) THEN RStrip(SubSeq(t, 1, Len(t) - 1)) ELSE t

\* str.strip()
Strip(t) == RStrip(LStrip(t))

\* needle in haystack (Python's "in" on str)
Contains(haystack, needle) ==
    \E k \in 0 .. (Len(haystack) - Len(needle)) :
        SubSeq(haystack, k + 1, k + Len(needle)) = needle

IsPrefix(s, t) == Len(s) <= Len(t) /\ SubSeq(t, 1, Len(s)) = s

\* ------------------------------------------------------------ json.loads
\* An oracle answer is a sequence of lexical tokens of the flat JSON subset
\* below; a token that is no JSON token ("Yes") makes the text undecodable.
JsonScalars == {"true", "false", "null", "1", "\"ok\"", "\"success\"", "\"explanation\""}
JsonStrings == {"\"ok\"", "\"success\"", "\"explanation\""}

\* JSON whitespace between tokens is insignificant
RECURSIVE DropSpace(_)
DropSpace(t) ==
    IF t = <<>> THEN <<>>
    ELSE IF IsSpace(Head(t)) THEN DropSpace(Tail(t))
    ELSE <<Head(t)>> \o DropSpace(Tail(t))

\* elements of an array body: scalar ("," scalar)*
IsElements(t) ==
    /\ Len(t) % 2 = 1
    /\ \A k \in 1 .. Len(t) :
        IF k % 2 = 1 THEN t[k] \in JsonScalars ELSE t[k] = ","

\* members of an object body: string ":" scalar ("," string ":" scalar)*
IsMembers(t) ==
    /\ Len(t) % 4 = 3
    /\ \A k \in 1 .. Len(t) :
        CASE k % 4 = 1 -> t[k] \in JsonStrings
          [] k % 4 = 2 -> t[k] = ":"
          [] k % 4 = 3 -> t[k] \in JsonScalars
          [] OTHER -> t[k] = ","

MemberKeys(t) == {t[k] : k \in {j \in 1 .. Len(t) : j % 4 = 1}}

\* the value of the last member named key (a repeated key: the last one wins)
MemberValue(t, key) ==
    LET at == {j \in 1 .. Len(t) : j % 4 = 1 /\ t[j] = key}
        last == CHOOSE j \in at : \A m \in at : m <= j
    IN t[last + 2]

JsonDecodeError == [ok |-> FALSE, kind |-> "error", keys |-> {}, body |-> <<>>]

\* json.loads(text): kind is "object", "array" or "scalar"
JsonLoads(text) ==
    LET t == DropSpace(text)
        n == Len(t)
        inner == IF n >= 2 THEN SubSeq(t, 2, n - 1) ELSE <<>>
    IN  IF n = 1 /\ t[1] \in JsonScalars
        THEN [ok |-> TRUE, kind |-> "scalar", keys |-> {}, body |-> t]
        ELSE IF n >= 2 /\ t[1] = "[" /\ t[n] = "]" /\ (inner = <<>> \/ IsElements(inner))
        THEN [ok |-> TRUE, kind |-> "array", keys |-> {}, body |-> inner]
        ELSE IF n >= 2 /\ t[1] = "{" /\ t[n] = "}" /\ (inner = <<>> \/ IsMembers(inner))
        THEN [ok |-> TRUE, kind |-> "object",
              keys |-> IF inner = <<>> THEN {} ELSE MemberKeys(inner), body |-> inner]
        ELSE JsonDecodeError

\* --------------------------------------------------------- guess_success
DecodeFailureNote == <<"Failed to decode JSON from LLM response: ">>

Returned(s, e) == [raised |-> "", success |-> s, explanation |-> e]
Raised(x) == [raised |-> x, success |-> "", explanation |-> <<>>]

\* the except clause of guess_success: the exception types it handles
GuessSuccessCatches == {"JSONDecodeError"}

\* json_answer['success'], json_answer['explanation'] on the decoded value
Subscript(j) ==
    IF j.kind # "object" THEN Raised("TypeError")
    ELSE IF ~({"\"success\"", "\"explanation\""} \subseteq j.keys) THEN Raised("KeyError")
    ELSE Returned(MemberValue(j.body, "\"success\""),
                  <<MemberValue(j.body, "\"explanation\"")>>)

\* guess_success from the oracle's response on: answer = content.strip(), then
\* the try block.  success is the JSON token of the value ("true" is True).
GuessSuccess(content) ==
    LET answer == Strip(content)
        j == JsonLoads(answer)
        tried == IF j.ok THEN Subscript(j) ELSE Raised("JSONDecodeError")
    IN  IF tried.raised = "" THEN tried
        ELSE IF tried.raised \in GuessSuccessCatches
        THEN Returned("false", DecodeFailureNote \o answer)
        ELSE tried

\* ------------------------------------------------------ sandbox and oracle
\* What runtime.run_action returns: a CmdOutputObservation with exit code 0
\* ("ok", with its content) or another exit code ("nonzero"), an
\* ErrorObservation ("error"), or an observation of any other type ("other").
CmdOk(content) == [kind |-> "ok", content |-> content]
CmdFailed(kind) == [kind |-> kind, content |-> <<>>]

Chars == {" ", "x"}
Contents == UNION {[1 .. n -> Chars] : n \in 0 .. MaxContentLen}

DiffObservations(env) ==
    {CmdOk(c) : c \in env.contents} \cup {CmdFailed(k) : k \in env.failures}

SetupObservations(env) == {"ok"} \cup (env.failures \ {"other"})

\* The exception a setup step raises on an observation that is not a
\* CmdOutputObservation with exit code 0 (the message reads obs.exit_code,
\* which an ErrorObservation does not have).
SetupException(kind) == IF kind = "nonzero" THEN "RuntimeError" ELSE "AttributeError"

\* Oracle answers: the texts completion() may return.
ValidAnswers ==
    { <<"{", "\"success\"", ":", s, ",", "\"explanation\"", ":", "\"ok\"", "}">> :
        s \in {"true", "false"} }

AnswerTokens == {"{", "}", "[", "]", ":", ",", "true", "\"ok\"", "\"success\"", "Yes", " "}

ShortAnswers == UNION {[1 .. n -> AnswerTokens] : n \in 0 .. 2}

ShapedAnswers ==
    { <<"{", "\"success\"", ":", "true", "}">>,
      <<"{", "\"explanation\"", ":", "\"ok\"", "}">>,
      <<"{", "\"ok\"", ":", "1", "}">>,
      <<"[", "true", ",", "\"ok\"", "]">>,
      <<"{", "\"success\"", ":", "true", ",", "\"explanation\"", ":", "\"ok\"">>,
      <<"{", "\"success\"", ":", "true", ",", "\"explanation\"", ":", "\"ok\"", "}", "Yes">>,
      <<"Yes", "{", "\"success\"", ":", "true", ",", "\"explanation\"", ":", "\"ok\"", "}">>,
      <<"{", "\"success\"", ":", "false", ",", "\"explanation\"", ":", "\"ok\"", ",",
        "\"success\"", ":", "true", "}">>,
      <<" ", "{", "\"success\"", ":", "true", ",", " ", "\"explanation\"", ":", "\"ok\"", "}", " ">>,
      <<"{", "\"success\"", ":", "\"ok\"", ",", "\"explanation\"", ":", "1", "}">> }

AllAnswers == ValidAnswers \cup ShortAnswers \cup ShapedAnswers

\* ------------------------------------------------------------------ ledger
\* ResolverOutput(...) as process_issue builds it
ResolverOutput(number, commit, patch, v, error) ==
    [number |-> number, base_commit |-> commit, git_patch |-> patch,
     success |-> v.success, success_explanation |-> v.explanation, error |-> error]

\* resolved_output.model_dump_json() + "\n"; torn: only a proper prefix of the
\* line reached the disk
Line(output) == [rec |-> output, torn |-> FALSE]
TornLine(output) == [rec |-> output, torn |-> TRUE]

\* data["number"] of a decoded line
LineNumber(line) == line.rec.number

\* output_fp.write(text)
Write(buf, line) == Append(buf, line)

\* a flush that leaves the text in the buffer
NoFlush(disk, buf) == [disk |-> disk, buf |-> buf]

\* output_fp.flush(): the buffer reaches the disk
Flush(disk, buf) == [disk |-> disk \o buf, buf |-> <<>>]

\* a progress bar that is not advanced
PbarDescribeOnly(p, number) == [n |-> p.n, total |-> p.total, desc |-> number]

\* pbar.update(1); pbar.set_description(f'issue {number}')
PbarUpdate(p, number) == [n |-> p.n + 1, total |-> p.total, desc |-> number]

\* lines 451-459: the numbers of the lines of output.jsonl
LoadFinished(disk) == {LineNumber(disk[k]) : k \in 1 .. Len(disk)}

\* json.loads(line) raises on a line that is not a whole JSON document
LoadRaises(disk) == \E k \in 1 .. Len(disk) : disk[k].torn

\* lines 468-473
RECURSIVE FilterFinished(_, _)
FilterFinished(list, finished) ==
    IF list = <<>> THEN <<>>
    ELSE IF Head(list) \in finished THEN FilterFinished(Tail(list), finished)
    ELSE <<Head(list)>> \o FilterFinished(Tail(list), finished)

\* lines 486-501: the list the task loop iterates
TaskList(all_issues, remaining) == all_issues

Range(list) == {list[k] : k \in 1 .. Len(list)}

\* ------------------------------------------------------------- revisions
\* the commit id of the head of the repository git clone fetched
RepoHead == "c0"

\* a commit the agent made in its workspace
AgentCommit == "c1"

\* lines 439-445: the argument list ["cd", dir, "&&", "git", "rev-parse",
\* "HEAD"] is run without a shell, so the program that runs is "cd" and git
\* never does: the call raises, or returns what "cd" printed, which is nothing
RevParseHead == ""

\* the revision "git diff --no-color --cached {commit}" compares the index
\* with: the one named, or the workspace's HEAD when the text names none
DiffAgainst(commit, workspace_head) == IF commit = "" THEN workspace_head ELSE commit

\* ------------------------------------------------------------------- state
InFlightPcs == {"create_runtime", "init_cd", "init_pager", "run_controller",
                "cd", "pager", "safe_directory", "add", "diff", "sleep"}

InFlight(i) == pc[i] \in InFlightPcs

NoTasks == [i \in IssueNumbers |-> "none"]

FreshTasks ==
    /\ n_retries' = [i \in IssueNumbers |-> 0]
    /\ git_patch' = [i \in IssueNumbers |-> None]
    /\ last_error' = [i \in IssueNumbers |-> None]
    /\ exc' = [i \in IssueNumbers |-> ""]
    /\ diff_obs' = [i \in IssueNumbers |-> <<>>]
    /\ timeouts' = [i \in IssueNumbers |-> <<>>]
    /\ sleeps' = [i \in IssueNumbers |-> 0]
    /\ cmds' = [i \in IssueNumbers |-> <<>>]
    /\ oracle_calls' = [i \in IssueNumbers |-> 0]
    /\ oracle_text' = [i \in IssueNumbers |-> None]
    /\ verdict' = [i \in IssueNumbers |-> Raised("")]
    /\ sandboxes' = {}
    /\ head' = [i \in IssueNumbers |-> RepoHead]
    /\ setup_obs' = [i \in IssueNumbers |-> <<>>]
    /\ starts' = [i \in IssueNumbers |-> 0]

InitWith(list) ==
    /\ issues = list
    /\ output_file = <<>>
    /\ output_buf = <<>>
    /\ repo_dir = FALSE
    /\ workspace_dirs = {}
    /\ run_pc = "idle"
    /\ runs = 0
    /\ start_len = 0
    /\ finished_numbers = {}
    /\ new_issues = <<>>
    /\ base_commit = ""
    /\ num_workers = 1
    /\ sem = 0
    /\ gather_exc = FALSE
    /\ pbar = [n |-> 0, total |-> 0, desc |-> 0]
    /\ pc = NoTasks
    /\ n_retries = [i \in IssueNumbers |-> 0]
    /\ git_patch = [i \in IssueNumbers |-> None]
    /\ last_error = [i \in IssueNumbers |-> None]
    /\ exc = [i \in IssueNumbers |-> ""]
    /\ diff_obs = [i \in IssueNumbers |-> <<>>]
    /\ timeouts = [i \in IssueNumbers |-> <<>>]
    /\ sleeps = [i \in IssueNumbers |-> 0]
    /\ cmds = [i \in IssueNumbers |-> <<>>]
    /\ oracle_calls = [i \in IssueNumbers |-> 0]
    /\ oracle_text = [i \in IssueNumbers |-> None]
    /\ verdict = [i \in IssueNumbers |-> Raised("")]
    /\ token = TRUE
    /\ output_dir = FALSE
    /\ setup_exc = ""
    /\ sandboxes = {}
    /\ head = [i \in IssueNumbers |-> RepoHead]
    /\ setup_obs = [i \in IssueNumbers |-> <<>>]
    /\ starts = [i \in IssueNumbers |-> 0]

Init == InitWith([k \in 1 .. NumIssues |-> k])

\* ---------------------------------------------------------- resolve_issues
\* The steps of the setup that can raise, in the order they run.
SetupOutcomes == {"download_raises", "clone_raises", "rev_parse_raises", "ok"}

\* the exception that leaves resolve_issues before its task loop, "" if none:
\* raise_for_status (343), check_output of git clone (427) and of line 440,
\* json.loads (455)
SetupRaises(outcome, disk) ==
    CASE outcome = "download_raises" -> "HTTPError"
      [] outcome = "clone_raises" -> "CalledProcessError"
      [] outcome = "rev_parse_raises" -> "FileNotFoundError"
      [] outcome = "ok" /\ LoadRaises(disk) -> "JSONDecodeError"
      [] OTHER -> ""

\* git clone into output_dir/repo: fails when the directory is already there
CloneMustFail == repo_dir

\* resolve_issues from its call to its first await (gather): download, clone,
\* rev-parse, load of output.jsonl, open for append, filter, pbar, tasks,
\* semaphore.  limit: the largest number of calls modelled.
StartRun(workers, limit) ==
    /\ run_pc # "running"
    /\ runs < limit
    /\ runs' = runs + 1
    /\ \E outcome \in SetupOutcomes :
        LET cloned == outcome \in {"rev_parse_raises", "ok"}
            loaded == outcome = "ok" /\ ~LoadRaises(output_file)
            remaining == FilterFinished(issues, LoadFinished(output_file))
            tasks == TaskList(issues, remaining)
        IN  /\ cloned => ~CloneMustFail
            /\ repo_dir' = (repo_dir \/ cloned)
            /\ output_dir' = (output_dir \/ outcome # "download_raises")
            /\ setup_exc' = SetupRaises(outcome, output_file)
            /\ run_pc' = IF loaded THEN "running" ELSE "raised"
            /\ finished_numbers' = IF loaded THEN LoadFinished(output_file) ELSE {}
            /\ new_issues' = IF loaded THEN remaining ELSE <<>>
            /\ pbar' = [n |-> 0, total |-> IF loaded THEN Len(issues) ELSE 0, desc |-> 0]
            /\ pc' = IF loaded
                     THEN [i \in IssueNumbers |->
                              IF i \in Range(tasks) THEN "pending" ELSE "none"]
                     ELSE NoTasks
            /\ num_workers' = workers
            /\ sem' = IF loaded THEN workers ELSE 0
    /\ base_commit' = RevParseHead
    /\ token' = TRUE
    /\ start_len' = Len(output_file)
    /\ gather_exc' = FALSE
    /\ FreshTasks
    /\ UNCHANGED << issues, output_file, output_buf, workspace_dirs >>

\* ---------------------------------------------------------------- __main__
\* checks that accept an output directory that is already there
RefusesNoToken(tok, exists) == ~tok

\* lines 607-613: no token, or os.path.exists(output_dir)
Refuses(tok, exists) == ~tok \/ exists

\* raise ValueError(...): the program ends before asyncio.run
Refuse(tok, workers, limit) ==
    /\ run_pc # "running"
    /\ runs < limit
    /\ runs' = runs + 1
    /\ run_pc' = "raised"
    /\ setup_exc' = "ValueError"
    /\ token' = tok
    /\ finished_numbers' = {}
    /\ new_issues' = <<>>
    /\ pbar' = [n |-> 0, total |-> 0, desc |-> 0]
    /\ pc' = NoTasks
    /\ num_workers' = workers
    /\ sem' = 0
    /\ base_commit' = ""
    /\ start_len' = Len(output_file)
    /\ gather_exc' = FALSE
    /\ FreshTasks
    /\ UNCHANGED << issues, diskVars, output_dir >>

\* the program run from the command line: lines 597-633
Main(tok, workers, limit) ==
    IF Refuses(tok, output_dir)
    THEN Refuse(tok, workers, limit)
    ELSE StartRun(workers, limit)

\* ------------------------------------------------------------ task helpers
Pos(i) == CHOOSE k \in 1 .. Len(issues) : issues[k] = i

\* a semaphore that admits every task
SemFreeAlways(value) == TRUE

\* the semaphore admits a task
SemFree(value) == value > 0

\* a queue that takes a task that raised back in
WaitsOrFailed(at) == at \in {"pending", "failed"}

\* the task has been created by gather() and has not entered "async with sem"
Waits(at) == at = "pending"

\* the first waiter of the semaphore (tasks wait in creation order)
NextToStart(i) ==
    /\ Waits(pc[i])
    /\ \A j \in IssueNumbers : Waits(pc[j]) => Pos(i) <= Pos(j)

CanStart(i) == NextToStart(i) /\ SemFree(sem)

\* the task of issue i ends with exception x: "async with sem" releases the
\* semaphore and gather() gets the exception
Raise(i, x) ==
    /\ pc' = [pc EXCEPT ![i] = "failed"]
    /\ exc' = [exc EXCEPT ![i] = x]
    /\ sem' = sem + 1
    /\ gather_exc' = TRUE

Goto(i, next) ==
    /\ pc' = [pc EXCEPT ![i] = next]
    /\ UNCHANGED << exc, sem, gather_exc >>

\* a command is sent to the sandbox
Issue(i, cmd) == cmds' = [cmds EXCEPT ![i] = Append(@, cmd)]

\* ----------------------------------------------------------- process_issue
\* run_with_semaphore acquires the semaphore; process_issue runs to its first
\* await: shutil.copytree raises when the workspace is already there.
Start(i) ==
    /\ run_pc = "running"
    /\ CanStart(i)
    /\ starts' = [starts EXCEPT ![i] = @ + 1]
    /\ IF i \in workspace_dirs
       THEN /\ pc' = [pc EXCEPT ![i] = "failed"]
            /\ exc' = [exc EXCEPT ![i] = "FileExistsError"]
            /\ sem' = sem
            /\ gather_exc' = TRUE
            /\ UNCHANGED workspace_dirs
       ELSE /\ pc' = [pc EXCEPT ![i] = "create_runtime"]
            /\ sem' = sem - 1
            /\ workspace_dirs' = workspace_dirs \cup {i}
            /\ UNCHANGED << exc, gather_exc >>
    /\ UNCHANGED << issues, output_file, output_buf, repo_dir, runVars, n_retries,
                    git_patch, last_error, diff_obs, timeouts, sleeps, cmds,
                    oracle_calls, oracle_text, verdict, callVars, sandboxes, head,
                    setup_obs >>

\* a step of the task of issue i that touches neither the disk nor the ledger
Quiet == UNCHANGED << issues, diskVars, runVars, n_retries, git_patch, diff_obs,
                      timeouts, sleeps, oracle_calls, oracle_text, verdict,
                      callVars, starts >>

\* await create_runtime(config, sid) returns or raises
CreateRuntime(i) ==
    /\ run_pc = "running"
    /\ pc[i] = "create_runtime"
    /\ \/ /\ Goto(i, "init_cd")
          /\ Issue(i, "init_cd")
          /\ sandboxes' = sandboxes \cup {i}
       \/ Raise(i, "RuntimeError") /\ UNCHANGED << cmds, sandboxes >>
    /\ UNCHANGED << last_error, head, setup_obs >>
    /\ Quiet

\* a check that lets every observation pass
SetupPassesAlways(obs) == TRUE

\* isinstance(obs, CmdOutputObservation) and obs.exit_code == 0
SetupPasses(obs) == obs = "ok"

\* the observation of a setup command arrives: exit code 0 sends the next
\* command (or goes on to the next call), anything else raises
SetupStep(i, env, at, next, is_cmd) ==
    /\ run_pc = "running"
    /\ pc[i] = at
    /\ \E obs \in SetupObservations(env) :
        /\ setup_obs' = [setup_obs EXCEPT ![i] = Append(@, obs)]
        /\ IF SetupPasses(obs)
           THEN /\ Goto(i, next)
                /\ IF is_cmd THEN Issue(i, next) ELSE UNCHANGED cmds
           ELSE Raise(i, SetupException(obs)) /\ UNCHANGED cmds
    /\ UNCHANGED << last_error, sandboxes, head >>
    /\ Quiet

\* an initialization that goes on to the agent after cd alone
InitCdThenAgent(i, env) == SetupStep(i, env, "init_cd", "run_controller", FALSE)

\* initialize_runtime: cd /workspace, git config --global core.pager ""
InitCd(i, env) == SetupStep(i, env, "init_cd", "init_pager", TRUE)
InitPager(i, env) == SetupStep(i, env, "init_pager", "run_controller", FALSE)

\* await run_controller(...) returns a State (with or without last_error) or
\* None, or raises; then complete_runtime sends cd /workspace
RunController(i, env) ==
    /\ run_pc = "running"
    /\ pc[i] = "run_controller"
    /\ \/ \E e \in env.errors, commits \in env.commits :
            /\ last_error' = [last_error EXCEPT ![i] = e]
            /\ head' = [head EXCEPT ![i] = IF commits THEN AgentCommit ELSE @]
            /\ Goto(i, "cd")
            /\ Issue(i, "cd")
       \/ Raise(i, "RuntimeError") /\ UNCHANGED << cmds, last_error, head >>
    /\ UNCHANGED << sandboxes, setup_obs >>
    /\ Quiet

\* complete_runtime: cd, core.pager, safe.directory, git add -A, first git diff
CompleteCd(i, env) == SetupStep(i, env, "cd", "pager", TRUE)
CompletePager(i, env) == SetupStep(i, env, "pager", "safe_directory", TRUE)
CompleteSafeDirectory(i, env) == SetupStep(i, env, "safe_directory", "add", TRUE)

\* a timeout that does not grow
DiffTimeoutFlat(n) == BaseTimeout

\* action.timeout = 600 + 100 * n_retries
DiffTimeout(n) == BaseTimeout + TimeoutStep * n

CompleteAdd(i, env) ==
    /\ run_pc = "running"
    /\ pc[i] = "add"
    /\ \E obs \in SetupObservations(env) :
        /\ setup_obs' = [setup_obs EXCEPT ![i] = Append(@, obs)]
        /\ IF SetupPasses(obs)
           THEN /\ Goto(i, "diff")
                /\ Issue(i, "diff")
                /\ timeouts' = [timeouts EXCEPT ![i] = Append(@, DiffTimeout(n_retries[i]))]
           ELSE Raise(i, SetupException(obs)) /\ UNCHANGED << cmds, timeouts >>
    /\ UNCHANGED << issues, diskVars, runVars, n_retries, git_patch, last_error,
                    diff_obs, sleeps, oracle_calls, oracle_text, verdict, callVars,
                    sandboxes, head, starts >>

\* what completion() does: returns a text or raises (transport failure)
OracleOutcomes(env) ==
    {[raises |-> FALSE, content |-> a] : a \in env.answers}
        \cup {[raises |-> TRUE, content |-> <<>>]}

\* the tasks a dying process or a cancellation ends
Ended(how) ==
    [j \in IssueNumbers |-> IF pc[j] \in InFlightPcs \cup {"pending"} THEN how ELSE pc[j]]

\* update_progress after "await output": pbar, write, flush; then
\* run_with_semaphore releases the semaphore.  The process may die while the
\* line is on its way to the disk, which leaves a torn line.
UpdateProgress(i, output) ==
    /\ pbar' = PbarUpdate(pbar, i)
    /\ \/ LET flushed == Flush(output_file, Write(output_buf, Line(output)))
          IN  /\ output_file' = flushed.disk
              /\ output_buf' = flushed.buf
              /\ pc' = [pc EXCEPT ![i] = "done"]
              /\ sem' = sem + 1
              /\ UNCHANGED run_pc
       \/ /\ output_file' = Append(output_file, TornLine(output))
          /\ output_buf' = <<>>
          /\ pc' = Ended("killed")
          /\ run_pc' = "crashed"
          /\ UNCHANGED sem
    /\ UNCHANGED << exc, gather_exc >>

\* process_issue after complete_runtime returned patch: guess_success,
\* ResolverOutput, return; then update_progress.  No await in between.
AfterExtraction(i, patch, env) ==
    /\ oracle_calls' = [oracle_calls EXCEPT ![i] = @ + 1]
    /\ \E o \in OracleOutcomes(env) :
        LET v == GuessSuccess(o.content)
        IN  /\ oracle_text' = [oracle_text EXCEPT ![i] =
                                  IF o.raises THEN None ELSE Some(o.content)]
            /\ IF o.raises
               THEN /\ Raise(i, "APIError")
                    /\ UNCHANGED << verdict, pbar, output_file, output_buf, run_pc >>
               ELSE IF v.raised # ""
               THEN /\ Raise(i, v.raised)
                    /\ UNCHANGED << verdict, pbar, output_file, output_buf, run_pc >>
               ELSE /\ verdict' = [verdict EXCEPT ![i] = v]
                    /\ UpdateProgress(i, ResolverOutput(i, base_commit, patch, v,
                                                        last_error[i]))

\* a capture that takes an empty diff for no diff
CapturedIfAny(content) == IF Strip(content) = <<>> THEN None ELSE Some(Strip(content))

\* git_patch = obs.content.strip()
Captured(content) == Some(Strip(content))

\* a loop that makes one attempt more
DiffLoopOneMore(n) == n <= MaxDiffRetries

\* while n_retries < 5
DiffLoopContinues(n) == n < MaxDiffRetries

\* a failed attempt that is not slept on
NoBackoff(count) == count

\* lines 180 and 183: await asyncio.sleep(10) after a failed attempt; count:
\* the sleeps of the issue so far
Backoff(count) == count + 1

\* a loop that retries whatever is not a success
DiffRetriedAny(kind) == kind # "ok"

\* lines 174-183: a CmdOutputObservation with a non-zero exit code, or an
\* ErrorObservation, is slept on and retried
DiffRetried(kind) == kind \in {"nonzero", "error"}

\* the observation of a git diff attempt arrives
DiffAttempt(i, env) ==
    /\ run_pc = "running"
    /\ pc[i] = "diff"
    /\ n_retries' = [n_retries EXCEPT ![i] = @ + 1]
    /\ \E obs \in DiffObservations(env) :
        /\ diff_obs' = [diff_obs EXCEPT ![i] = Append(@, obs)]
        /\ CASE obs.kind = "ok" ->
                    /\ git_patch' = [git_patch EXCEPT ![i] = Captured(obs.content)]
                    /\ AfterExtraction(i, Captured(obs.content), env)
                    /\ UNCHANGED sleeps
             [] DiffRetried(obs.kind) ->
                    /\ Goto(i, "sleep")
                    /\ sleeps' = [sleeps EXCEPT ![i] = Backoff(@)]
                    /\ UNCHANGED << git_patch, oracle_calls, oracle_text, verdict, pbar,
                                    output_file, output_buf, run_pc >>
             [] OTHER ->
                    /\ Raise(i, "ValueError")
                    /\ UNCHANGED << git_patch, sleeps, oracle_calls, oracle_text, verdict, pbar,
                                    output_file, output_buf, run_pc >>
    /\ UNCHANGED << issues, repo_dir, workspace_dirs, runs, start_len,
                    finished_numbers, new_issues, base_commit, num_workers,
                    last_error, timeouts, cmds, callVars, sandboxes, head, setup_obs,
                    starts >>

\* asyncio.sleep(10) is over: the loop sends the next git diff, or ends with
\* git_patch = None
SleepDone(i, env) ==
    /\ run_pc = "running"
    /\ pc[i] = "sleep"
    /\ IF DiffLoopContinues(n_retries[i])
       THEN /\ Goto(i, "diff")
            /\ Issue(i, "diff")
            /\ timeouts' = [timeouts EXCEPT ![i] = Append(@, DiffTimeout(n_retries[i]))]
            /\ UNCHANGED << oracle_calls, oracle_text, verdict, pbar, output_file, output_buf, run_pc >>
       ELSE /\ AfterExtraction(i, git_patch[i], env)
            /\ UNCHANGED << cmds, timeouts >>
    /\ UNCHANGED << issues, repo_dir, workspace_dirs, runs, start_len,
                    finished_numbers, new_issues, base_commit, num_workers,
                    n_retries, git_patch, last_error, diff_obs, sleeps, callVars,
                    sandboxes, head, setup_obs, starts >>

\* ------------------------------------------------------------ end of a run
\* gather() returned: output_fp.close()
FinishRun ==
    /\ run_pc = "running"
    /\ ~gather_exc
    /\ \A i \in IssueNumbers : pc[i] \in {"done", "none"}
    /\ run_pc' = "done"
    /\ output_file' = Flush(output_file, output_buf).disk
    /\ output_buf' = <<>>
    /\ UNCHANGED << issues, repo_dir, workspace_dirs, runs, start_len,
                    finished_numbers, new_issues, base_commit, num_workers, sem,
                    gather_exc, pbar, taskVars, callVars >>

\* The exception of a task leaves gather() and resolve_issues (only
\* KeyboardInterrupt is caught); asyncio.run cancels the tasks that are left.
\* Tasks the semaphore had already woken run their first step before that.
Abort ==
    /\ run_pc = "running"
    /\ gather_exc
    /\ ~\E i \in IssueNumbers : CanStart(i)
    /\ run_pc' = "raised"
    /\ pc' = Ended("cancelled")
    /\ output_file' = Flush(output_file, output_buf).disk
    /\ output_buf' = <<>>
    /\ UNCHANGED << issues, repo_dir, workspace_dirs, runs, start_len,
                    finished_numbers, new_issues, base_commit, num_workers, sem,
                    gather_exc, pbar, n_retries, git_patch, last_error, exc,
                    diff_obs, timeouts, sleeps, cmds, oracle_calls, oracle_text, verdict,
                    callVars, sandboxes, head, setup_obs, starts >>

\* the process is killed between two steps
Crash ==
    /\ run_pc = "running"
    /\ run_pc' = "crashed"
    /\ pc' = Ended("killed")
    /\ output_buf' = <<>>
    /\ UNCHANGED << issues, output_file, repo_dir, workspace_dirs, runs, start_len,
                    finished_numbers, new_issues, base_commit, num_workers, sem,
                    gather_exc, pbar, n_retries, git_patch, last_error, exc,
                    diff_obs, timeouts, sleeps, cmds, oracle_calls, oracle_text, verdict,
                    callVars, sandboxes, head, setup_obs, starts >>

\* cleanup(): process.terminate() and join() for the multiprocessing children
\* of this process; alive: the sandboxes that run, children: those among them
\* that are multiprocessing children
Cleanup(alive, children) == alive \ children

\* SIGINT while gather() is awaited.  Either KeyboardInterrupt reaches the
\* await of gather() (it was raised inside a task step): the handler of lines
\* 512-514 runs cleanup(), output_fp is closed and resolve_issues returns.  Or
\* the event loop cancels the main task (asyncio.run's SIGINT handling), or
\* KeyboardInterrupt leaves the loop while it waits: CancelledError is not
\* KeyboardInterrupt, the handler does not run and the exception leaves
\* resolve_issues.  Either way every task that is left is cancelled.
Interrupt ==
    /\ run_pc = "running"
    /\ \E caught \in BOOLEAN, children \in SUBSET sandboxes :
        /\ ~caught => children = {}
        /\ run_pc' = IF caught THEN "interrupted" ELSE "cancelled"
        /\ sandboxes' = Cleanup(sandboxes, children)
    /\ pc' = Ended("cancelled")
    /\ output_file' = Flush(output_file, output_buf).disk
    /\ output_buf' = <<>>
    /\ UNCHANGED << issues, repo_dir, workspace_dirs, runs, start_len,
                    finished_numbers, new_issues, base_commit, num_workers, sem,
                    gather_exc, pbar, n_retries, git_patch, last_error, exc,
                    diff_obs, timeouts, sleeps, cmds, oracle_calls, oracle_text, verdict,
                    callVars, head, setup_obs, starts >>

\* between runs the operator removes output_dir/repo, with or without
\* output_dir/workspace
CleanWorkDirs ==
    /\ run_pc \in {"done", "raised", "crashed", "interrupted", "cancelled"}
    /\ repo_dir
    /\ repo_dir' = FALSE
    /\ workspace_dirs' \in {workspace_dirs, {}}
    /\ UNCHANGED << issues, output_file, output_buf, runVars, sem, gather_exc,
                    taskVars, callVars >>

\* ---------------------------------------------------------- specifications
\* What the collaborators of a run may answer: the contents of a successful
\* git diff, the kinds of failed observation, the oracle's texts, and the
\* values of state.last_error.
Step(i, env) ==
    \/ Start(i)
    \/ CreateRuntime(i)
    \/ InitCd(i, env)
    \/ InitPager(i, env)
    \/ RunController(i, env)
    \/ CompleteCd(i, env)
    \/ CompletePager(i, env)
    \/ CompleteSafeDirectory(i, env)
    \/ CompleteAdd(i, env)
    \/ DiffAttempt(i, env)
    \/ SleepDone(i, env)

\* Spec: several issues, workers and runs; one diff content, one kind of
\* failed observation, an answer guess_success returns on and one it raises on.
RunEnv ==
    [contents |-> {<<"x">>},
     failures |-> {"nonzero"},
     answers |-> { <<"{", "\"success\"", ":", "true", ",", "\"explanation\"", ":", "\"ok\"", "}">>,
                   <<"{", "\"success\"", ":", "true", "}">> },
     errors |-> {None},
     commits |-> {FALSE}]

Next ==
    \/ \E w \in 1 .. MaxWorkers : StartRun(w, MaxRuns)
    \/ \E i \in IssueNumbers : Step(i, RunEnv)
    \/ FinishRun
    \/ Abort
    \/ Crash
    \/ Interrupt
    \/ CleanWorkDirs

Spec == Init /\ [][Next]_vars

\* SpecRun: one run of resolve_issues on a new output_dir, with several
\* issues and workers
NextRun ==
    \/ \E w \in 1 .. MaxWorkers : StartRun(w, 1)
    \/ \E i \in IssueNumbers : Step(i, RunEnv)
    \/ FinishRun
    \/ Abort
    \/ Crash
    \/ Interrupt

SpecRun == Init /\ [][NextRun]_vars

\* a repository with one issue
InitItem == InitWith(<<1>>)

\* SpecMain: the program run from the command line, with and without a
\* token, several times with the same --output-dir, on a repository with one
\* issue
NextMain ==
    \/ \E tok \in BOOLEAN, w \in 1 .. MaxWorkers : Main(tok, w, MaxRuns)
    \/ \E i \in IssueNumbers : Step(i, RunEnv)
    \/ FinishRun
    \/ Abort
    \/ Crash
    \/ Interrupt

SpecMain == InitItem /\ [][NextMain]_vars

\* SpecItem: one issue, one worker, one run; every diff content, every kind of
\* observation, every oracle answer, with and without state.last_error.
ItemEnv ==
    [contents |-> Contents,
     failures |-> {"nonzero", "error", "other"},
     answers |-> AllAnswers,
     errors |-> {None, Some(<<"e">>)},
     commits |-> BOOLEAN]

NextItem ==
    \/ StartRun(1, 1)
    \/ Step(1, ItemEnv)
    \/ FinishRun
    \/ Abort
    \/ Crash
    \/ Interrupt

SpecItem == InitItem /\ [][NextItem]_vars

TypeOK ==
    /\ run_pc \in {"idle", "running", "done", "raised", "crashed", "interrupted",
                  "cancelled"}
    /\ sandboxes \subseteq IssueNumbers
    /\ sem \in 0 .. MaxWorkers
    /\ \A i \in IssueNumbers :
        pc[i] \in InFlightPcs \cup {"none", "pending", "done", "failed", "cancelled", "killed"}

\* ------------------------------------------------------------------ claims
\* the lines this run has put on the disk
ThisRun == SubSeq(output_file, start_len + 1, Len(output_file))

\* process_issue has begun for issue i
Started(i) == pc[i] \notin {"none", "pending"}

\* the whole lines of issue i among those of this run
LinesOf(i) == {k \in 1 .. Len(ThisRun) : ~ThisRun[k].torn /\ LineNumber(ThisRun[k]) = i}

\* C1: a run against an output.jsonl that already holds records starts a
\* pipeline only for the issues whose number is not among those loaded, and
\* creates len(issues) minus the number of listed finished issues pipelines.
C1_SkipsFinished ==
    run_pc = "running" =>
        /\ \A i \in IssueNumbers : Started(i) => i \notin finished_numbers
        /\ Cardinality({i \in IssueNumbers : pc[i] # "none"})
              = Len(issues) - Cardinality(Range(issues) \cap finished_numbers)

\* C2: whatever runs were made on one output location with one issue list,
\* no two lines of the ledger carry the same issue number.
C2_NoDuplicateIds ==
    \A j, k \in 1 .. Len(output_file) :
        (j # k /\ ~output_file[j].torn /\ ~output_file[k].torn)
            => LineNumber(output_file[j]) # LineNumber(output_file[k])

\* C3: at every instant of a run with num_workers = k, at most k pipelines
\* are in flight, however many issues there are.
C3_BoundedInFlight ==
    Cardinality({i \in IssueNumbers : InFlight(i)}) <= num_workers

\* C3 witness: as many pipelines in flight as there are workers while another
\* issue still waits for the semaphore.
C3_Witness ==
    /\ run_pc = "running"
    /\ Cardinality({i \in IssueNumbers : InFlight(i)}) = num_workers
    /\ \E i \in IssueNumbers : pc[i] = "pending"

\* C4: when the pipeline of one issue fails, the other scheduled issues still
\* run to completion and have their record appended: once the run is over,
\* every scheduled issue that did not fail itself is done with a line written.
C4_SiblingsSurviveFailure ==
    run_pc \in {"done", "raised"} =>
        \A i \in IssueNumbers :
            pc[i] \notin {"none", "failed"} => (pc[i] = "done" /\ LinesOf(i) # {})

\* C5: an issue whose pipeline failed at some step is still appended to the
\* ledger, with a null patch: once the run is over, every failed issue has a
\* line of this run.
C5_FailedIsPersisted ==
    run_pc \in {"done", "raised"} =>
        \A i \in IssueNumbers :
            pc[i] = "failed" =>
                \E k \in LinesOf(i) : ThisRun[k].rec.git_patch = None

\* the git diff commands issue i has sent
DiffsSent(i) == Cardinality({k \in 1 .. Len(cmds[i]) : cmds[i][k] = "diff"})

\* the diff attempts of issue i that failed: a non-zero exit code or an
\* ErrorObservation
FailedAttempts(i) ==
    {k \in 1 .. Len(diff_obs[i]) : diff_obs[i][k].kind \in {"nonzero", "error"}}

\* the diff loop of issue i is over without an exception of its own
LoopReturned(i) == oracle_calls[i] > 0

\* C6: in the diff step, f failed attempts (0 <= f <= 4) followed by a
\* success make exactly f + 1 attempts, none after the success, and a
\* non-null patch; 5 failed attempts make exactly 5 attempts, a null patch
\* and no exception, and the issue's record, once written, has a null patch.
C6_DiffRetry ==
    \A i \in IssueNumbers :
        LET n == Len(diff_obs[i])
            f == Cardinality(FailedAttempts(i))
        IN  /\ n <= MaxDiffRetries
            /\ n_retries[i] = n
            /\ DiffsSent(i) \in {n, n + 1}
            /\ DiffsSent(i) <= MaxDiffRetries
            /\ pc[i] = "diff" => DiffsSent(i) = n + 1
            /\ pc[i] \in {"sleep", "done", "failed"} => DiffsSent(i) = n
            /\ \A k \in 1 .. n - 1 : k \in FailedAttempts(i)
            /\ (n > 0 /\ diff_obs[i][n].kind = "ok") =>
                  /\ f = n - 1
                  /\ git_patch[i] # None
                  /\ LoopReturned(i)
                  /\ pc[i] \in {"done", "failed", "killed"}
            /\ (f = MaxDiffRetries /\ pc[i] \in {"done", "failed"}) =>
                  /\ git_patch[i] = None
                  /\ LoopReturned(i)
                  /\ pc[i] = "failed" => exc[i] \in {"APIError", "KeyError", "TypeError"}
            /\ (f = MaxDiffRetries /\ pc[i] = "done") =>
                  /\ LinesOf(i) # {}
                  /\ \A k \in LinesOf(i) : ThisRun[k].rec.git_patch = None

\* C6 witness: five failed attempts, then the record with a null patch.
C6_Witness ==
    \E i \in IssueNumbers :
        /\ pc[i] = "done"
        /\ Cardinality(FailedAttempts(i)) = MaxDiffRetries
        /\ DiffsSent(i) = MaxDiffRetries
        /\ \E k \in LinesOf(i) : ThisRun[k].rec.git_patch = None

\* C7: a diff attempt with exit code 0 and empty output gives the empty
\* patch, which is not the null patch; the patch is null exactly when no
\* attempt returned exit code 0.
C7_EmptyPatchIsNotNull ==
    \A i \in IssueNumbers :
        LET oks == {k \in 1 .. Len(diff_obs[i]) : diff_obs[i][k].kind = "ok"}
        IN  /\ (git_patch[i] = None) <=> (oks = {})
            /\ \A k \in oks :
                  diff_obs[i][k].content = <<>> =>
                      /\ git_patch[i] = Some(<<>>)
                      /\ git_patch[i] # None
                      /\ \A m \in LinesOf(i) : ThisRun[m].rec.git_patch = Some(<<>>)

\* C7 witness: the first attempt returned exit code 0 with empty output and
\* the record carries the empty patch.
C7_Witness ==
    \E i \in IssueNumbers :
        /\ Len(diff_obs[i]) = 1
        /\ diff_obs[i][1] = CmdOk(<<>>)
        /\ \E m \in LinesOf(i) : ThisRun[m].rec.git_patch = Some(<<>>)

\* the answer decodes to an object with a success and an explanation field
Structured(text) ==
    LET j == JsonLoads(Strip(text))
    IN j.ok /\ j.kind = "object" /\ {"\"success\"", "\"explanation\""} \subseteq j.keys

\* C8: for every oracle text that is not the structured answer (not JSON, not
\* an object, a field missing) guess_success raises nothing and returns
\* success = false with an explanation that contains the text.
C8_UnparsedAnswerDegrades ==
    \A i \in IssueNumbers :
        (oracle_text[i] # None /\ ~Structured(oracle_text[i].val)) =>
            /\ exc[i] = ""
            /\ verdict[i].raised = ""
            /\ verdict[i].success = "false"
            /\ Contains(verdict[i].explanation, Strip(oracle_text[i].val))

\* one step seen from the ledger: the lines already on the disk stay as they
\* are, at most one line is added, a line is whole unless the process died
\* while writing it (and then it is the last one), nothing stays unflushed,
\* and every issue whose update_progress has returned has its whole line on
\* the disk, also once the process has died
C9_Step ==
    /\ IsPrefix(output_file, output_file')
    /\ Len(output_file') <= Len(output_file) + 1
    /\ \A k \in 1 .. Len(output_file') :
          output_file'[k].torn => (k = Len(output_file') /\ run_pc' \notin {"running", "done"})
    /\ output_buf' = <<>>
    /\ \A i \in IssueNumbers : pc'[i] = "done" => LinesOf(i)' # {}

\* C9: appends are serialized: each record reaches the disk as one whole
\* line in one step, under every interleaving of the pipelines, and a crash
\* at any point leaves every record appended before it intact.
C9_AppendsAreAtomic == [][C9_Step]_vars

\* C9 witness: two workers; the process died with the record of one issue
\* appended and another issue in flight: the record is on the disk.
C9_Witness ==
    /\ run_pc = "crashed"
    /\ num_workers = 2
    /\ \E i, j \in IssueNumbers :
        /\ pc[i] = "done"
        /\ LinesOf(i) # {}
        /\ pc[j] = "killed"
        /\ cmds[j] # <<>>

\* C10: every issue whose pipeline completed in this run has exactly one line
\* appended in this run and advanced the progress bar by one, so the progress
\* count is the number of lines the run appended, and the bar names the issue
\* of the last line.
C10_OneRecordOneSignal ==
    /\ pbar.n = Len(ThisRun)
    /\ pbar.n > 0 => pbar.desc = LineNumber(ThisRun[Len(ThisRun)])
    /\ run_pc # "crashed" =>
          /\ pbar.n = Cardinality({i \in IssueNumbers : pc[i] = "done"})
          /\ \A i \in IssueNumbers :
                Cardinality(LinesOf(i)) = IF pc[i] = "done" THEN 1 ELSE 0

\* C10 witness: a run that completed every issue.
C10_Witness ==
    /\ run_pc = "done"
    /\ pbar.n = Len(issues)
    /\ Len(ThisRun) = Len(issues)

\* the lines that were on the disk when this run read output.jsonl
AtLoad == SubSeq(output_file, 1, start_len)

\* the setup of this run got as far as reading output.jsonl
ReachedLoad == run_pc # "idle" /\ setup_exc \in {"", "JSONDecodeError"}

\* C11: the scan of output.jsonl at startup trusts only the number of each
\* line: whatever lines are there, whole or partially written, the scan does
\* not fail and the number of every line is in the skip set.
C11_LoadTrustsOnlyId ==
    ReachedLoad =>
        /\ setup_exc = ""
        /\ \A k \in 1 .. Len(AtLoad) : LineNumber(AtLoad[k]) \in finished_numbers

\* an operator interrupt has ended the run
Interrupted == run_pc \in {"interrupted", "cancelled"}

\* C12: once an operator interrupt has ended the run, no pipeline is left
\* that could start or go on, no sandbox of an issue that was in flight is
\* still running when resolve_issues is over, and every issue that had
\* completed before the interrupt still has its whole line in the ledger.
C12_InterruptStopsAndCleans ==
    Interrupted =>
        /\ \A i \in IssueNumbers : pc[i] \notin InFlightPcs \cup {"pending"}
        /\ \A i \in IssueNumbers : pc[i] = "cancelled" => i \notin sandboxes
        /\ \A i \in IssueNumbers : pc[i] = "done" => LinesOf(i) # {}

\* one step of the program seen from its start: a start without a token or
\* on an output directory that is already there is refused with ValueError,
\* and a start whose setup raised (refused, or the download, the clone or a
\* later setup call failed) has created no task and appended no line
C13_Step ==
    /\ (runs' = runs + 1 /\ (~token' \/ output_dir)) =>
          (run_pc' = "raised" /\ setup_exc' = "ValueError")
    /\ setup_exc' # "" =>
          /\ run_pc' = "raised"
          /\ pc' = NoTasks
          /\ output_file' = output_file
          /\ sandboxes' = {}

\* C13: a setup error (no token, an output directory that already exists, a
\* failed clone) is fatal: the run ends before any pipeline is scheduled and
\* before any line is appended, and the program refuses to start when the
\* output directory already exists.
C13_SetupErrorsAreFatal == [][C13_Step]_vars

\* C13 witness: a first run wrote a record; the program, started again with
\* a token on the same output directory, was refused and appended nothing.
C13_Witness ==
    /\ setup_exc = "ValueError"
    /\ token
    /\ output_dir
    /\ runs = 2
    /\ output_file # <<>>
    /\ ThisRun = <<>>
    /\ pc = NoTasks

\* C14: the base revision is taken once, before any pipeline starts, and
\* every record a run appends carries it: the base_commit of every line of
\* the run is the one resolve_issues captured, it is the revision of the
\* repository that was cloned, and it is the revision the git diff of that
\* issue was taken against.
C14_OneBaseRevision ==
    \A k \in 1 .. Len(ThisRun) :
        ~ThisRun[k].torn =>
            LET rec == ThisRun[k].rec
            IN  /\ rec.base_commit = base_commit
                /\ rec.base_commit = RepoHead
                /\ rec.git_patch # None =>
                      DiffAgainst(base_commit, head[rec.number]) = rec.base_commit

\* C15: within one run process_issue is called at most once for each issue,
\* in whatever order the issues complete: a task that is in its pipeline or
\* has left it entered it exactly once, and a task that waits never did.
C15_AttemptedAtMostOnce ==
    \A i \in IssueNumbers :
        /\ starts[i] <= 1
        /\ (InFlight(i) \/ pc[i] \in {"done", "failed"}) => starts[i] = 1
        /\ pc[i] \in {"none", "pending"} => starts[i] = 0

\* C15 witness: two workers; the second issue of the list completed while the
\* first is still in flight, each started once.
C15_Witness ==
    /\ num_workers = 2
    /\ Len(issues) >= 2
    /\ pc[issues[2]] = "done"
    /\ InFlight(issues[1])
    /\ starts[issues[1]] = 1
    /\ starts[issues[2]] = 1

\* the setup commands of complete_runtime, in the order of lines 132-160
ExtractorSetup == << "cd", "pager", "safe_directory", "add" >>

\* what issue i has sent and received after initialize_runtime's two
\* commands: the commands of complete_runtime and the outcomes of its setup
\* commands
ExtractorCmds(i) == SubSeq(cmds[i], 3, Len(cmds[i]))
ExtractorObs(i) == SubSeq(setup_obs[i], 3, Len(setup_obs[i]))

\* C16: complete_runtime sends cd, core.pager, safe.directory, git add and
\* then git diff, in this order and each setup command once; a command is
\* sent only after the one before it returned exit code 0; a setup command
\* that returns a non-zero exit code or an error observation is the last
\* command of the issue, whose task ends with an exception.
C16_ExtractorOrder ==
    \A i \in IssueNumbers :
        LET ec == ExtractorCmds(i)
            eo == ExtractorObs(i)
        IN  /\ Len(eo) <= Len(ExtractorSetup)
            /\ \A k \in 1 .. Len(ec) :
                  ec[k] = IF k <= Len(ExtractorSetup) THEN ExtractorSetup[k] ELSE "diff"
            /\ \A k \in 2 .. Len(ec) :
                  k <= Len(ExtractorSetup) + 1 => (Len(eo) >= k - 1 /\ eo[k - 1] = "ok")
            /\ \A k \in 1 .. Len(eo) :
                  eo[k] # "ok" =>
                      /\ k = Len(eo)
                      /\ Len(ec) = k
                      /\ pc[i] = "failed"
                      /\ exc[i] \in {"RuntimeError", "AttributeError"}
                      /\ diff_obs[i] = <<>>
                      /\ LinesOf(i) = {}

\* C16 witness: safe.directory returned a non-zero exit code after cd and
\* core.pager had passed: it is the last command and the task has failed.
C16_Witness ==
    \E i \in IssueNumbers :
        /\ ExtractorObs(i) = << "ok", "ok", "nonzero" >>
        /\ ExtractorCmds(i) = << "cd", "pager", "safe_directory" >>
        /\ pc[i] = "failed"
        /\ exc[i] = "RuntimeError"

\* C17: the timeout of diff attempt number n (n = 0..4) is 600 + 100 * n:
\* the first attempt has 600 and every later attempt has more than the one
\* before it; every diff command sent has its timeout.
C17_TimeoutsIncrease ==
    \A i \in IssueNumbers :
        LET t == timeouts[i]
        IN  /\ Len(t) = DiffsSent(i)
            /\ Len(t) <= 5
            /\ \A k \in 1 .. Len(t) : t[k] = 600 + 100 * (k - 1)
            /\ \A k \in 2 .. Len(t) : t[k] > t[k - 1]
            /\ Len(t) > 0 => t[1] = BaseTimeout

\* C17 witness: five diff attempts were made, the fifth with 1000.
C17_Witness ==
    \E i \in IssueNumbers :
        /\ Len(diff_obs[i]) = 5
        /\ timeouts[i] = << 600, 700, 800, 900, 1000 >>

\* the diff loop of issue i ended without a patch: all five attempts failed
NeverConverged(i) == Cardinality(FailedAttempts(i)) = MaxDiffRetries

\* C18: for an issue whose five diff attempts all failed (null patch) the
\* classifier is not applied: completion() is not called, guess_success
\* returns nothing, and the record of the issue carries no success value and
\* no explanation.
C18_NoVerdictWithoutPatch ==
    \A i \in IssueNumbers :
        NeverConverged(i) =>
            /\ oracle_calls[i] = 0
            /\ oracle_text[i] = None
            /\ verdict[i] = Raised("")
            /\ \A k \in LinesOf(i) :
                  /\ ThisRun[k].rec.git_patch = None
                  /\ ThisRun[k].rec.success = ""
                  /\ ThisRun[k].rec.success_explanation = <<>>

\* the run is over and the task of issue i ended with the oracle's failure
OracleFailed(i) == run_pc \in {"done", "raised"} /\ exc[i] = "APIError"

\* C19: completion() is called at most once for an issue and exactly once
\* for an issue that was classified; when the call fails there is no second
\* call, and the failure is the error of that issue only: every other issue
\* of the run still ends its own pipeline.
C19_OracleOnceAndLocal ==
    /\ \A i \in IssueNumbers : oracle_calls[i] <= 1
    /\ \A i \in IssueNumbers : pc[i] = "done" => oracle_calls[i] = 1
    /\ \A i \in IssueNumbers : exc[i] = "APIError" => oracle_calls[i] = 1
    /\ \A i, j \in IssueNumbers :
          (OracleFailed(i) /\ j # i /\ pc[j] # "none") => pc[j] \in {"done", "failed"}

\* C20: a diff attempt answered by an observation that is neither a
\* CmdOutputObservation nor an ErrorObservation is the last attempt of the
\* issue: it is not slept on, no further git diff is sent, the task ends with
\* ValueError, and the classifier and the ledger are not reached, so no
\* record with a null patch is written.
C20_UnexpectedObservationRaises ==
    \A i \in IssueNumbers :
        \A k \in 1 .. Len(diff_obs[i]) :
            diff_obs[i][k].kind = "other" =>
                /\ k = Len(diff_obs[i])
                /\ pc[i] = "failed"
                /\ exc[i] = "ValueError"
                /\ DiffsSent(i) = k
                /\ sleeps[i] = k - 1
                /\ git_patch[i] = None
                /\ oracle_calls[i] = 0
                /\ LinesOf(i) = {}

\* C20 witness: the first attempt failed and was retried; the second was
\* answered by an observation of another type and the task raised.
C20_Witness ==
    \E i \in IssueNumbers :
        /\ Len(diff_obs[i]) = 2
        /\ diff_obs[i][1].kind = "nonzero"
        /\ diff_obs[i][2].kind = "other"
        /\ exc[i] = "ValueError"
        /\ run_pc = "raised"

\* the pipelines that hold the semaphore
Holders == {i \in IssueNumbers : InFlight(i)}

\* C21: in the diff loop asyncio.sleep(10) follows every failed attempt, the
\* fifth included, and no successful one: the sleeps of an issue are as many
\* as its failed attempts, 5 when all attempts are used up; a pipeline that
\* sleeps is in flight and holds its place in the semaphore, so the places
\* left are num_workers minus the pipelines in flight.
C21_BackoffAfterEveryFailure ==
    /\ \A i \in IssueNumbers :
          /\ sleeps[i] = Cardinality(FailedAttempts(i))
          /\ sleeps[i] <= MaxDiffRetries
          /\ pc[i] = "sleep" =>
                /\ InFlight(i)
                /\ diff_obs[i][Len(diff_obs[i])].kind # "ok"
                /\ sleeps[i] = Len(diff_obs[i])
          /\ (Len(diff_obs[i]) > 0 /\ diff_obs[i][Len(diff_obs[i])].kind = "ok") =>
                (sleeps[i] = Len(diff_obs[i]) - 1 /\ pc[i] # "sleep")
          /\ (LoopReturned(i) /\ git_patch[i] = None) => sleeps[i] = 5
    /\ run_pc = "running" => sem = num_workers - Cardinality(Holders)

\* C21 witness: one worker; the first issue sleeps after its fifth failed
\* attempt while the second still waits for the semaphore.
C21_Witness ==
    /\ run_pc = "running"
    /\ num_workers = 1
    /\ sem = 0
    /\ \E i, j \in IssueNumbers :
        /\ pc[i] = "sleep"
        /\ sleeps[i] = 5
        /\ Cardinality(FailedAttempts(i)) = 5
        /\ pc[j] = "pending"

\* the outcomes of initialize_runtime's two commands for issue i
InitObs(i) == SubSeq(setup_obs[i], 1, IF Len(setup_obs[i]) < 2 THEN Len(setup_obs[i]) ELSE 2)

\* something of issue i happened after initialize_runtime: the agent runs or
\* ran, complete_runtime sent a command, or guess_success was called
PastInit(i) ==
    \/ pc[i] \in InFlightPcs \ {"create_runtime", "init_cd", "init_pager"}
    \/ Len(cmds[i]) > 2
    \/ diff_obs[i] # <<>>
    \/ oracle_calls[i] > 0
    \/ head[i] # RepoHead
    \/ last_error[i] # None
    \/ pc[i] = "done"

\* C22: run_controller is awaited only after cd /workspace and the core.pager
\* command of initialize_runtime both returned exit code 0; when either
\* fails the task raises at once, and the agent, the extraction and the
\* classification never happen for that issue.
C22_NoAgentAfterFailedInit ==
    \A i \in IssueNumbers :
        /\ PastInit(i) => InitObs(i) = << "ok", "ok" >>
        /\ \A k \in 1 .. Len(InitObs(i)) :
              InitObs(i)[k] # "ok" =>
                  /\ k = Len(setup_obs[i])
                  /\ Len(cmds[i]) = k
                  /\ pc[i] = "failed"
                  /\ exc[i] \in {"RuntimeError", "AttributeError"}
                  /\ ~PastInit(i)
                  /\ LinesOf(i) = {}

\* C22 witness: cd passed and the core.pager command of initialize_runtime
\* returned a non-zero exit code: the task raised and nothing else ran.
C22_Witness ==
    \E i \in IssueNumbers :
        /\ setup_obs[i] = << "ok", "nonzero" >>
        /\ cmds[i] = << "init_cd", "init_pager" >>
        /\ pc[i] = "failed"
        /\ exc[i] = "RuntimeError"
        /\ run_pc = "raised"

====
